---- MODULE Spec2Model ----
(***************************************************************************)
(* State machine of the PolygonDrawer component (src/src/App.tsx).         *)
(* Every React state cell is a variable, every event handler is an action. *)
(* A handler runs to completion; the state it reads is the state of the    *)
(* last render, which is the current state because React re-renders after  *)
(* every discrete event before the next one is dispatched.                 *)
(* The value of the file input, which clearCover and resetImage empty, is  *)
(* state of the DOM that no handler reads; it is not modelled.  saveImage  *)
(* changes no state of the component and has no action.                    *)
(***************************************************************************)
EXTENDS Integers, Sequences, FiniteSets

VARIABLES
    shapes,              \* IShape[]: finished shapes, in order of creation
    currentPoints,       \* number[]: the draft, flattened x0,y0,x1,y1,...
    isDrawing,           \* boolean
    fillColor,           \* string | null
    selectedPointIndex,  \* number | null
    isClosed,            \* boolean
    imageUrl,            \* string, '' when there is no background
    readers,             \* FileReaders whose onload has not run yet (files, oldest first)
    lastOp,              \* name of the handler that ran last (history)
    events,              \* number of events handled so far (history)
    pc,                  \* position in the closing scenario (SpecScenario only)
    clicked              \* positions clicked so far in the scenario (SpecScenario only)

scenario == <<pc, clicked>>
history == <<events>>
vars == <<shapes, currentPoints, isDrawing, fillColor, selectedPointIndex,
          isClosed, imageUrl, readers, lastOp, events, pc, clicked>>

----------------------------------------------------------------------------
(* Values *)

\* JavaScript null; a present value v of a nullable cell is <<v>>.
null == <<>>

\* const radius = 10
radius == 10

\* Bounds of the model: the number of events of a behaviour, and the number
\* of clicks before the closing click of the scenario.
MaxEvents == 14
ScenarioClicks == 3

\* Pointer positions the events are drawn from.
\*   P0 (50,50), PB (150,50), PC (150,150): the corners of the spec's scenario
\*   PN (55,53): closer than radius to P0 and to PT
\*   PT (60,50): at distance exactly radius from P0
\*   PD (65,50): closer than radius to PT only
P0 == <<50, 50>>
PB == <<150, 50>>
PC == <<150, 150>>
PN == <<55, 53>>
PT == <<60, 50>>
PD == <<65, 50>>
Pos == {P0, PN, PT}
DragPos == {PD}
ScenarioPos == {P0, PB, PC, PN, PT}

\* <option value=...> of the fill select the events are drawn from.
FillOptions == {"none", "lightgreen"}

\* Files the user can pick.
Files == {"a.png"}

----------------------------------------------------------------------------
(* Geometry helper *)

\* Math.sqrt, rounded down.  The code only compares the distance with the
\* integer radius, and sqrt(n) < r  <=>  floor(sqrt(n)) < r for an integer r.
Sqrt(n) == CHOOSE r \in 0..n : r * r <= n /\ (r + 1) * (r + 1) > n

Distance(x, y, px, py) == Sqrt((x - px) * (x - px) + (y - py) * (y - py))

\* Variant: the boundary counts as close (distance <= radius).
isCloseToPoint_Inclusive(x, y) ==
    \E i \in 0..(Len(currentPoints) - 1) :
        /\ i % 2 = 0
        /\ i + 2 <= Len(currentPoints)
        /\ Distance(x, y, currentPoints[i + 1], currentPoints[i + 2]) <= radius

\* Variant: the radius of the handle (5) is used instead of radius.
isCloseToPoint_HandleRadius(x, y) ==
    \E i \in 0..(Len(currentPoints) - 1) :
        /\ i % 2 = 0
        /\ i + 2 <= Len(currentPoints)
        /\ 2 * Distance(x, y, currentPoints[i + 1], currentPoints[i + 2]) < radius

\* Variant: the loop stops one vertex early (i < currentPoints.length - 2).
isCloseToPoint_SkipLast(x, y) ==
    \E i \in 0..(Len(currentPoints) - 3) :
        /\ i % 2 = 0
        /\ Distance(x, y, currentPoints[i + 1], currentPoints[i + 2]) < radius

\* for (let i = 0; i < currentPoints.length; i += 2): i is the 0-based index of px.
\* A missing py (odd length) makes the distance NaN, and NaN < radius is false.
isCloseToPoint(x, y) ==
    \E i \in 0..(Len(currentPoints) - 1) :
        /\ i % 2 = 0
        /\ i + 2 <= Len(currentPoints)
        /\ Distance(x, y, currentPoints[i + 1], currentPoints[i + 2]) < radius

\* Variant: the boundary counts as close (distance <= radius).
isCloseToFirstPoint_Inclusive(x, y) ==
    IF Len(currentPoints) < 2
    THEN FALSE
    ELSE Distance(x, y, currentPoints[1], currentPoints[2]) <= radius

isCloseToFirstPoint(x, y) ==
    IF Len(currentPoints) < 2
    THEN FALSE
    ELSE Distance(x, y, currentPoints[1], currentPoints[2]) < radius

NumVertices == Len(currentPoints) \div 2

----------------------------------------------------------------------------
(* Handlers *)

Init ==
    /\ shapes = <<>>
    /\ currentPoints = <<>>
    /\ isDrawing = FALSE
    /\ fillColor = null
    /\ selectedPointIndex = null
    /\ isClosed = FALSE
    /\ imageUrl = ""
    /\ readers = <<>>
    /\ lastOp = "none"
    /\ events = 0
    /\ pc = "idle"
    /\ clicked = <<>>

\* Variant: the early return on a selected vertex is missing.
handleClick_IgnoresSelection(p) ==
    /\ lastOp' = "handleClick"
    /\ IF isCloseToFirstPoint(p[1], p[2])
       THEN /\ isClosed' = TRUE
            /\ UNCHANGED currentPoints
       ELSE IF isCloseToPoint(p[1], p[2])
       THEN UNCHANGED <<currentPoints, isClosed>>
       ELSE /\ currentPoints' = currentPoints \o <<p[1], p[2]>>
            /\ UNCHANGED isClosed
    /\ UNCHANGED <<shapes, isDrawing, fillColor, selectedPointIndex,
                   imageUrl, readers>>

\* Variant: adding a vertex reopens the draft.
handleClick_AppendReopens(p) ==
    /\ lastOp' = "handleClick"
    /\ IF selectedPointIndex # null
       THEN UNCHANGED <<currentPoints, isClosed>>
       ELSE IF isCloseToFirstPoint(p[1], p[2])
       THEN /\ isClosed' = TRUE
            /\ UNCHANGED currentPoints
       ELSE IF isCloseToPoint(p[1], p[2])
       THEN UNCHANGED <<currentPoints, isClosed>>
       ELSE /\ currentPoints' = currentPoints \o <<p[1], p[2]>>
            /\ isClosed' = FALSE
    /\ UNCHANGED <<shapes, isDrawing, fillColor, selectedPointIndex,
                   imageUrl, readers>>

\* Variant: the closing click also adds its position to the draft.
handleClick_AppendOnClose(p) ==
    /\ lastOp' = "handleClick"
    /\ IF selectedPointIndex # null
       THEN UNCHANGED <<currentPoints, isClosed>>
       ELSE IF isCloseToFirstPoint(p[1], p[2])
       THEN /\ isClosed' = TRUE
            /\ currentPoints' = currentPoints \o <<p[1], p[2]>>
       ELSE IF isCloseToPoint(p[1], p[2])
       THEN UNCHANGED <<currentPoints, isClosed>>
       ELSE /\ currentPoints' = currentPoints \o <<p[1], p[2]>>
            /\ UNCHANGED isClosed
    /\ UNCHANGED <<shapes, isDrawing, fillColor, selectedPointIndex,
                   imageUrl, readers>>

\* Variant: the duplicate check against the later vertices runs before the
\* closing check.
handleClick_DuplicateFirst(p) ==
    /\ lastOp' = "handleClick"
    /\ IF selectedPointIndex # null
       THEN UNCHANGED <<currentPoints, isClosed>>
       ELSE IF \E i \in 1..(NumVertices - 1) :
                    Distance(p[1], p[2], currentPoints[2 * i + 1],
                             currentPoints[2 * i + 2]) < radius
       THEN UNCHANGED <<currentPoints, isClosed>>
       ELSE IF isCloseToFirstPoint(p[1], p[2])
       THEN /\ isClosed' = TRUE
            /\ UNCHANGED currentPoints
       ELSE /\ currentPoints' = currentPoints \o <<p[1], p[2]>>
            /\ UNCHANGED isClosed
    /\ UNCHANGED <<shapes, isDrawing, fillColor, selectedPointIndex,
                   imageUrl, readers>>

\* Variant: only x is appended.
handleClick_AppendX(p) ==
    /\ lastOp' = "handleClick"
    /\ IF selectedPointIndex # null
       THEN UNCHANGED <<currentPoints, isClosed>>
       ELSE IF isCloseToFirstPoint(p[1], p[2])
       THEN /\ isClosed' = TRUE
            /\ UNCHANGED currentPoints
       ELSE IF isCloseToPoint(p[1], p[2])
       THEN UNCHANGED <<currentPoints, isClosed>>
       ELSE /\ currentPoints' = currentPoints \o <<p[1]>>
            /\ UNCHANGED isClosed
    /\ UNCHANGED <<shapes, isDrawing, fillColor, selectedPointIndex,
                   imageUrl, readers>>

\* handleClick with the pointer at (p[1], p[2]).
handleClick(p) ==
    /\ lastOp' = "handleClick"
    /\ IF selectedPointIndex # null
       THEN UNCHANGED <<currentPoints, isClosed>>
       ELSE IF isCloseToFirstPoint(p[1], p[2])
       THEN /\ isClosed' = TRUE
            /\ UNCHANGED currentPoints
       ELSE IF isCloseToPoint(p[1], p[2])
       THEN UNCHANGED <<currentPoints, isClosed>>
       ELSE /\ currentPoints' = currentPoints \o <<p[1], p[2]>>
            /\ UNCHANGED isClosed
    /\ UNCHANGED <<shapes, isDrawing, fillColor, selectedPointIndex,
                   imageUrl, readers>>

\* Variant: the handler is attached in every mode (onMouseDown={handleClick}).
onMouseDown_AlwaysAttached(p) == handleClick(p)

\* <Stage onMouseDown={isDrawing ? handleClick : undefined}>
onMouseDown(p) ==
    /\ isDrawing
    /\ handleClick(p)

\* Variant: a draft of one vertex is refused and stays as it is.
finishDrawing_KeepsSingleVertex ==
    /\ isDrawing
    /\ Len(currentPoints) # 0
    /\ IF Len(currentPoints) > 2
       THEN /\ shapes' = Append(shapes, [points |-> currentPoints,
                                         closed |-> isClosed,
                                         fill |-> fillColor])
            /\ currentPoints' = <<>>
            /\ isDrawing' = FALSE
            /\ isClosed' = FALSE
       ELSE UNCHANGED <<shapes, currentPoints, isDrawing, isClosed>>
    /\ lastOp' = "finishDrawing"
    /\ UNCHANGED <<fillColor, selectedPointIndex, imageUrl, readers>>

\* Variant: the guard is currentPoints.length >= 2.
finishDrawing_SingleVertex ==
    /\ isDrawing
    /\ Len(currentPoints) # 0
    /\ IF Len(currentPoints) >= 2
       THEN shapes' = Append(shapes, [points |-> currentPoints,
                                      closed |-> isClosed,
                                      fill |-> fillColor])
       ELSE UNCHANGED shapes
    /\ currentPoints' = <<>>
    /\ isDrawing' = FALSE
    /\ isClosed' = FALSE
    /\ lastOp' = "finishDrawing"
    /\ UNCHANGED <<fillColor, selectedPointIndex, imageUrl, readers>>

\* Variant: the new shape is put in front ([{...}, ...prevShapes]).
finishDrawing_Prepend ==
    /\ isDrawing
    /\ Len(currentPoints) # 0
    /\ IF Len(currentPoints) > 2
       THEN shapes' = <<[points |-> currentPoints,
                         closed |-> isClosed,
                         fill |-> fillColor]>> \o shapes
       ELSE UNCHANGED shapes
    /\ currentPoints' = <<>>
    /\ isDrawing' = FALSE
    /\ isClosed' = FALSE
    /\ lastOp' = "finishDrawing"
    /\ UNCHANGED <<fillColor, selectedPointIndex, imageUrl, readers>>

\* <button onClick={finishDrawing} disabled={!isDrawing || !currentPoints.length}>
finishDrawing ==
    /\ isDrawing
    /\ Len(currentPoints) # 0
    /\ IF Len(currentPoints) > 2
       THEN shapes' = Append(shapes, [points |-> currentPoints,
                                    closed |-> isClosed,
                                    fill |-> fillColor])
       ELSE UNCHANGED shapes
    /\ currentPoints' = <<>>
    /\ isDrawing' = FALSE
    /\ isClosed' = FALSE
    /\ lastOp' = "finishDrawing"
    /\ UNCHANGED <<fillColor, selectedPointIndex, imageUrl, readers>>

\* Variant: setSelectedPointIndex(null) is missing.
startDrawing_KeepsSelection ==
    /\ ~isDrawing
    /\ isDrawing' = TRUE
    /\ currentPoints' = <<>>
    /\ isClosed' = FALSE
    /\ lastOp' = "startDrawing"
    /\ UNCHANGED <<shapes, fillColor, selectedPointIndex, imageUrl, readers>>

\* <button onClick={startDrawing} disabled={isDrawing}>
startDrawing ==
    /\ ~isDrawing
    /\ isDrawing' = TRUE
    /\ currentPoints' = <<>>
    /\ selectedPointIndex' = null
    /\ isClosed' = FALSE
    /\ lastOp' = "startDrawing"
    /\ UNCHANGED <<shapes, fillColor, imageUrl, readers>>

\* onDragStart of the Circle of vertex index: the handles exist while the
\* draft is non-empty, and one pointer drags one handle at a time.
handlePointDragStart(index) ==
    /\ index \in 0..(NumVertices - 1)
    /\ selectedPointIndex = null
    /\ selectedPointIndex' = <<index>>
    /\ lastOp' = "handlePointDragStart"
    /\ UNCHANGED <<shapes, currentPoints, isDrawing, fillColor, isClosed,
                   imageUrl, readers>>

\* onDragEnd of the dragged Circle.  When the handles are removed during a drag
\* (the draft is emptied), the scene-graph library may or may not still
\* deliver the end of the drag: both outcomes are behaviours of the model.
handlePointDragEnd ==
    /\ selectedPointIndex # null
    /\ selectedPointIndex' = null
    /\ lastOp' = "handlePointDragEnd"
    /\ UNCHANGED <<shapes, currentPoints, isDrawing, fillColor, isClosed,
                   imageUrl, readers>>

\* Variant: the index is not scaled (updatedPoints[index], updatedPoints[index + 1]).
handlePointDrag_NoScale(index, p) ==
    /\ selectedPointIndex = <<index>>
    /\ index < NumVertices
    /\ currentPoints' = [currentPoints EXCEPT ![index + 1] = p[1],
                                              ![index + 2] = p[2]]
    /\ lastOp' = "handlePointDrag"
    /\ UNCHANGED <<shapes, isDrawing, fillColor, selectedPointIndex, isClosed,
                   imageUrl, readers>>

\* onDragMove of the dragged Circle, which is now at (p[1], p[2]).
handlePointDrag(index, p) ==
    /\ selectedPointIndex = <<index>>
    /\ index < NumVertices
    /\ currentPoints' = [currentPoints EXCEPT ![index * 2 + 1] = p[1],
                                              ![index * 2 + 2] = p[2]]
    /\ lastOp' = "handlePointDrag"
    /\ UNCHANGED <<shapes, isDrawing, fillColor, selectedPointIndex, isClosed,
                   imageUrl, readers>>

\* reader.result of readAsDataURL(file)
DataURL(file) == "data:" \o file

\* Variant: the background is set in the handler itself
\* (setImageUrl(URL.createObjectURL(file))).
handleImageUpload_Synchronous(file) ==
    /\ imageUrl' = DataURL(file)
    /\ lastOp' = "handleImageUpload"
    /\ UNCHANGED <<shapes, currentPoints, isDrawing, fillColor,
                   selectedPointIndex, isClosed, readers>>

\* onChange of the file input with e.target.files[0] = file.  The handler only
\* starts the read; imageUrl is set when the reader's onload runs.
handleImageUpload(file) ==
    /\ readers' = Append(readers, file)
    /\ lastOp' = "handleImageUpload"
    /\ UNCHANGED <<shapes, currentPoints, isDrawing, fillColor,
                   selectedPointIndex, isClosed, imageUrl>>

\* reader.onload of the k-th pending FileReader.
readerOnload(k) ==
    /\ k \in 1..Len(readers)
    /\ imageUrl' = DataURL(readers[k])
    /\ readers' = SubSeq(readers, 1, k - 1) \o SubSeq(readers, k + 1, Len(readers))
    /\ lastOp' = "reader.onload"
    /\ UNCHANGED <<shapes, currentPoints, isDrawing, fillColor,
                   selectedPointIndex, isClosed>>

\* Variant: the draft button also empties the shapes.
clearCurrentPoints_AlsoShapes ==
    /\ currentPoints' = <<>>
    /\ isDrawing' = FALSE
    /\ isClosed' = FALSE
    /\ shapes' = <<>>
    /\ lastOp' = "clearCurrentPoints"
    /\ UNCHANGED <<fillColor, selectedPointIndex, imageUrl, readers>>

clearCurrentPoints ==
    /\ currentPoints' = <<>>
    /\ isDrawing' = FALSE
    /\ isClosed' = FALSE
    /\ lastOp' = "clearCurrentPoints"
    /\ UNCHANGED <<shapes, fillColor, selectedPointIndex, imageUrl, readers>>

clearShapes ==
    /\ shapes' = <<>>
    /\ lastOp' = "clearShapes"
    /\ UNCHANGED <<currentPoints, isDrawing, fillColor, selectedPointIndex,
                   isClosed, imageUrl, readers>>

clearCover ==
    /\ imageUrl' = ""
    /\ lastOp' = "clearCover"
    /\ UNCHANGED <<shapes, currentPoints, isDrawing, fillColor,
                   selectedPointIndex, isClosed, readers>>

\* Variant: setShapes([]) is missing.
resetImage_KeepsShapes ==
    /\ imageUrl' = ""
    /\ currentPoints' = <<>>
    /\ isDrawing' = FALSE
    /\ isClosed' = FALSE
    /\ lastOp' = "resetImage"
    /\ UNCHANGED <<shapes, fillColor, selectedPointIndex, readers>>

resetImage ==
    /\ imageUrl' = ""
    /\ shapes' = <<>>
    /\ currentPoints' = <<>>
    /\ isDrawing' = FALSE
    /\ isClosed' = FALSE
    /\ lastOp' = "resetImage"
    /\ UNCHANGED <<fillColor, selectedPointIndex, readers>>

\* onChange of the fill select: fires when the selected option changes.
FillOf(value) == IF value = "none" THEN null ELSE <<value>>

setFillColor(value) ==
    /\ FillOf(value) # fillColor
    /\ fillColor' = FillOf(value)
    /\ lastOp' = "setFillColor"
    /\ UNCHANGED <<shapes, currentPoints, isDrawing, selectedPointIndex,
                   isClosed, imageUrl, readers>>

----------------------------------------------------------------------------
(* The component under arbitrary user input *)

\* One event of the user or of the browser, handled by handler A.
Event(A) ==
    /\ events < MaxEvents
    /\ A
    /\ events' = events + 1
    /\ UNCHANGED scenario

Next ==
    \/ \E p \in Pos : Event(onMouseDown(p))
    \/ Event(finishDrawing)
    \/ Event(startDrawing)
    \/ \E i \in 0..(NumVertices - 1) : Event(handlePointDragStart(i))
    \/ \E i \in 0..(NumVertices - 1), p \in DragPos : Event(handlePointDrag(i, p))
    \/ Event(handlePointDragEnd)
    \/ \E f \in Files : Event(handleImageUpload(f))
    \/ \E k \in 1..Len(readers) : Event(readerOnload(k))
    \/ Event(clearCurrentPoints)
    \/ Event(clearShapes)
    \/ Event(clearCover)
    \/ Event(resetImage)
    \/ \E v \in FillOptions : Event(setFillColor(v))

Spec == Init /\ [][Next]_vars

----------------------------------------------------------------------------
(* The closing scenario: startDrawing, n >= 2 clicks that are pairwise at   *)
(* least radius apart, one click closer than radius to the first clicked    *)
(* position, finishDrawing.  clicked records the n positions, and the fill  *)
(* select may change at any moment before the finish.                       *)

SqDist(p, q) == (p[1] - q[1]) * (p[1] - q[1]) + (p[2] - q[2]) * (p[2] - q[2])

\* The claims' own reading of "closer than the proximity radius".
Within(p, q) == SqDist(p, q) < radius * radius

ScenarioStart ==
    /\ pc = "idle"
    /\ startDrawing
    /\ pc' = "clicking"
    /\ UNCHANGED <<clicked, history>>

ScenarioClick(p) ==
    /\ pc = "clicking"
    /\ Len(clicked) < ScenarioClicks
    /\ \A k \in 1..Len(clicked) : ~Within(p, clicked[k])
    /\ onMouseDown(p)
    /\ clicked' = Append(clicked, p)
    /\ UNCHANGED <<pc, history>>

ScenarioClose(p) ==
    /\ pc = "clicking"
    /\ Len(clicked) >= 2
    /\ Within(p, clicked[1])
    /\ onMouseDown(p)
    /\ pc' = "closed"
    /\ UNCHANGED <<clicked, history>>

ScenarioFinish ==
    /\ pc = "closed"
    /\ finishDrawing
    /\ pc' = "done"
    /\ UNCHANGED <<clicked, history>>

ScenarioFill(v) ==
    /\ pc # "done"
    /\ setFillColor(v)
    /\ UNCHANGED <<scenario, history>>

NextScenario ==
    \/ ScenarioStart
    \/ \E p \in ScenarioPos : ScenarioClick(p)
    \/ \E p \in ScenarioPos : ScenarioClose(p)
    \/ ScenarioFinish
    \/ \E v \in FillOptions : ScenarioFill(v)

SpecScenario == Init /\ [][NextScenario]_vars

----------------------------------------------------------------------------
(* Properties *)

\* Vertex i (0-based) of the draft.
Vertex(i) == <<currentPoints[2 * i + 1], currentPoints[2 * i + 2]>>

IsPrefix(s, t) == Len(s) <= Len(t) /\ \A i \in 1..Len(s) : t[i] = s[i]

Present(shape, collection) == \E j \in 1..Len(collection) : collection[j] = shape

\* C1: finishDrawing on a draft of exactly one vertex leaves the shapes
\* unchanged; on a draft of two or more vertices it appends, at the end, exactly
\* one shape made of the draft's points, isClosed and the fill color selected
\* at that moment.
C1_FinishAppendsDraft ==
    [][lastOp' = "finishDrawing" =>
         /\ NumVertices = 1 => shapes' = shapes
         /\ NumVertices >= 2 =>
               /\ Len(shapes') = Len(shapes) + 1
               /\ IsPrefix(shapes, shapes')
               /\ shapes'[Len(shapes')].points = currentPoints
               /\ shapes'[Len(shapes')].closed = isClosed
               /\ shapes'[Len(shapes')].fill = fillColor]_vars

\* A second shape, closed and filled, was appended behind an open unfilled one.
C1_Witness ==
    /\ lastOp = "finishDrawing"
    /\ Len(shapes) = 2
    /\ shapes[1].fill = null /\ ~shapes[1].closed
    /\ shapes[2].fill = <<"lightgreen">> /\ shapes[2].closed
    /\ shapes[2].points # shapes[1].points

\* C2: while drawing with no vertex selected, a click closer than radius to the
\* first vertex of a non-empty draft sets isClosed and leaves the points alone.
C2_ClickNearFirstCloses ==
    [][\A p \in Pos :
         (/\ onMouseDown(p)
          /\ selectedPointIndex = null
          /\ NumVertices >= 1
          /\ Within(p, Vertex(0)))
         => (isClosed' = TRUE /\ currentPoints' = currentPoints)]_vars

\* A one-vertex draft is closed and a click came last: that click was near the
\* only vertex, the first one.
C2_Witness ==
    /\ lastOp = "handleClick"
    /\ selectedPointIndex = null
    /\ NumVertices = 1
    /\ isClosed

\* C3: while drawing with no vertex selected, a click closer than radius to
\* some draft vertex never changes the number of points, and changes nothing
\* at all when it is not closer than radius to the first vertex.
C3_ClickNearVertexAddsNothing ==
    [][\A p \in Pos :
         (/\ onMouseDown(p)
          /\ selectedPointIndex = null
          /\ \E i \in 0..(NumVertices - 1) : Within(p, Vertex(i)))
         => /\ Len(currentPoints') = Len(currentPoints)
            /\ ~Within(p, Vertex(0)) => UNCHANGED <<currentPoints, isClosed>>]_vars

\* The open draft [PD, PT] after a click: a click at P0 would have added a
\* vertex and one at PT would have closed, so it was the click at PN, which is
\* near PT and not near PD.
C3_Witness ==
    /\ lastOp = "handleClick"
    /\ selectedPointIndex = null
    /\ currentPoints = <<65, 50, 60, 50>>
    /\ ~isClosed

\* C4: a click closer than radius to the first vertex and to another vertex
\* sets isClosed; it is neither dropped nor does it add a point.
C4_CloseBeforeDuplicate ==
    [][\A p \in Pos :
         (/\ onMouseDown(p)
          /\ selectedPointIndex = null
          /\ NumVertices >= 2
          /\ Within(p, Vertex(0))
          /\ \E i \in 1..(NumVertices - 1) : Within(p, Vertex(i)))
         => (isClosed' = TRUE /\ currentPoints' = currentPoints)]_vars

\* The closed draft [PD, PT] after a click: of the positions clicked, only PT
\* is near the first vertex PD, and it is on the second vertex.
C4_Witness ==
    /\ lastOp = "handleClick"
    /\ selectedPointIndex = null
    /\ currentPoints = <<65, 50, 60, 50>>
    /\ isClosed

\* C5: dragging vertex i to (x', y') sets entries 2i and 2i+1 (0-based) of the
\* points to x' and y' and leaves every other entry, the length, isClosed,
\* isDrawing and the shapes unchanged.
C5_DragMovesOneVertex ==
    [][\A i \in 0..(NumVertices - 1), p \in DragPos :
         handlePointDrag(i, p) =>
           /\ i < NumVertices
           /\ Len(currentPoints') = Len(currentPoints)
           /\ currentPoints'[2 * i + 1] = p[1]
           /\ currentPoints'[2 * i + 2] = p[2]
           /\ \A k \in 1..Len(currentPoints) :
                 k \notin {2 * i + 1, 2 * i + 2} => currentPoints'[k] = currentPoints[k]
           /\ UNCHANGED <<isClosed, isDrawing, shapes>>]_vars

\* The second vertex of a closed two-vertex draft was dragged to PD while a
\* finished shape exists.
C5_Witness ==
    /\ lastOp = "handlePointDrag"
    /\ selectedPointIndex = <<1>>
    /\ NumVertices = 2
    /\ Vertex(1) = PD /\ Vertex(0) # PD
    /\ isClosed
    /\ shapes # <<>>

\* C6: resetImage yields no shapes, an empty draft, Idle mode and no background.
C6_ResetImageClearsAll ==
    lastOp = "resetImage" =>
        /\ shapes = <<>>
        /\ currentPoints = <<>>
        /\ ~isClosed
        /\ ~isDrawing
        /\ imageUrl = ""

\* A reset in the middle of a drag, with a read still pending.
C6_Witness ==
    /\ lastOp = "resetImage"
    /\ selectedPointIndex # null
    /\ readers # <<>>
    /\ fillColor # null

\* C7: from Idle with no shapes: startDrawing, n >= 2 clicks pairwise at least
\* radius apart, one click closer than radius to the first clicked position and
\* finishDrawing end with exactly one shape, closed, whose points are the n
\* clicked positions in click order; the clicks (50,50), (150,50), (150,150)
\* give the points [50,50,150,50,150,150].
RECURSIVE Flatten(_)
Flatten(ps) == IF ps = <<>> THEN <<>> ELSE <<ps[1][1], ps[1][2]>> \o Flatten(Tail(ps))

C7_ClosingScenario ==
    pc = "done" =>
        /\ Len(shapes) = 1
        /\ shapes[1].points = Flatten(clicked)
        /\ shapes[1].closed = TRUE
        /\ clicked = <<P0, PB, PC>> => shapes[1].points = <<50, 50, 150, 50, 150, 150>>

\* The spec's scenario has run to its end.
C7_Witness ==
    /\ pc = "done"
    /\ clicked = <<P0, PB, PC>>
    /\ Len(shapes) = 1

\* C8: clicks, vertex drags, fill changes, startDrawing, finishDrawing,
\* clearCurrentPoints, clearCover and background loads leave every shape of the
\* collection as it is and where it is, and only finishDrawing adds a shape.
C8_Operations ==
    {"handleClick", "handlePointDragStart", "handlePointDrag", "handlePointDragEnd",
     "setFillColor", "startDrawing", "finishDrawing", "clearCurrentPoints",
     "clearCover", "handleImageUpload", "reader.onload"}

C8_ShapesImmutable ==
    [][/\ lastOp' \in C8_Operations =>
            /\ Len(shapes') >= Len(shapes)
            /\ \A k \in 1..Len(shapes) :
                  /\ shapes'[k].points = shapes[k].points
                  /\ shapes'[k].closed = shapes[k].closed
                  /\ shapes'[k].fill = shapes[k].fill
       /\ Len(shapes') > Len(shapes) => lastOp' = "finishDrawing"]_vars

\* Two different shapes exist while a vertex of a later draft is dragged and
\* the fill select shows another color than the first shape has.
C8_Witness ==
    /\ lastOp = "handlePointDrag"
    /\ Len(shapes) = 2
    /\ shapes[1] # shapes[2]
    /\ fillColor # shapes[1].fill
    /\ currentPoints # shapes[2].points

\* C9 as stated: only resetImage removes a finished shape.
C9_OnlyResetRemoves ==
    [][(\E k \in 1..Len(shapes) : ~Present(shapes[k], shapes'))
         => lastOp' = "resetImage"]_vars

\* C9, amended: a finished shape stays in the collection until resetImage or
\* clearShapes runs; no other operation removes it.
C9_OnlyResetOrClearShapesRemoves ==
    [][(\E k \in 1..Len(shapes) : ~Present(shapes[k], shapes'))
         => lastOp' \in {"resetImage", "clearShapes"}]_vars

\* clearShapes emptied the collection in the middle of a closed draft, with the
\* background still set: no reset.
C9_Witness ==
    /\ lastOp = "clearShapes"
    /\ shapes = <<>>
    /\ isDrawing /\ isClosed /\ NumVertices >= 2
    /\ imageUrl # ""

\* C10: the draft's points and every shape's points have even length, so
\* "length > 2" and "at least 2 vertices" agree.
C10_EvenLengths ==
    /\ Len(currentPoints) % 2 = 0
    /\ \A k \in 1..Len(shapes) : Len(shapes[k].points) % 2 = 0
    /\ (Len(currentPoints) > 2) <=> (NumVertices >= 2)

\* A three-vertex draft with a dragged vertex next to a finished shape.
C10_Witness ==
    /\ Len(currentPoints) = 6
    /\ Vertex(0) = PD
    /\ Len(shapes) = 1
    /\ Len(shapes[1].points) = 4

\* The program variables a canvas click can write.
drawing == <<shapes, currentPoints, isDrawing, fillColor, selectedPointIndex,
             isClosed, imageUrl, readers>>

\* C11: while a vertex is selected a canvas click changes nothing, wherever it
\* lands; the start of a drag selects the dragged vertex and the end of the
\* drag clears the selection.
C11_SelectionBlocksClicks ==
    [][/\ \A p \in Pos :
            (onMouseDown(p) /\ selectedPointIndex # null) => UNCHANGED drawing
       /\ \A i \in 0..(NumVertices - 1) :
            handlePointDragStart(i) => selectedPointIndex' = <<i>>
       /\ lastOp' = "handlePointDragEnd" => selectedPointIndex' = null]_vars

\* A click arrived during the drag of the only vertex of an open draft.
C11_Witness ==
    /\ lastOp = "handleClick"
    /\ selectedPointIndex = <<0>>
    /\ isDrawing /\ ~isClosed
    /\ NumVertices = 1

\* C12: startDrawing leaves the program drawing, with no draft points, the
\* draft open and no vertex selected; the shapes, the fill colour and the
\* background are as before.
C12_StartDrawingResetsDraft ==
    [][lastOp' = "startDrawing"
         => /\ isDrawing'
            /\ currentPoints' = <<>>
            /\ ~isClosed'
            /\ selectedPointIndex' = null
            /\ UNCHANGED <<shapes, fillColor, imageUrl>>]_vars

\* A second draft is started next to a finished shape, a chosen fill colour
\* and a loaded background.
C12_Witness ==
    /\ lastOp = "startDrawing"
    /\ isDrawing /\ currentPoints = <<>>
    /\ shapes # <<>>
    /\ fillColor # null
    /\ imageUrl # ""

\* C13: finishDrawing and clearCurrentPoints both leave the program idle (not
\* drawing, no draft points, draft open), whether or not a shape was appended;
\* clearCurrentPoints moreover leaves the shapes and the background alone.
C13_FinishAndClearReturnToIdle ==
    [][/\ lastOp' \in {"finishDrawing", "clearCurrentPoints"}
            => ~isDrawing' /\ currentPoints' = <<>> /\ ~isClosed'
       /\ lastOp' = "clearCurrentPoints" => UNCHANGED <<shapes, imageUrl>>]_vars

\* finishDrawing has discarded a draft: the program is idle and no shape was
\* ever appended.
C13_Witness ==
    /\ lastOp = "finishDrawing"
    /\ ~isDrawing /\ currentPoints = <<>>
    /\ shapes = <<>>
    /\ events = 3

\* The operations that clear the background.
C15_Clears == {"clearCover", "resetImage"}

\* C14 as stated: the background is set in the step of the file-input change
\* itself, and it changes in no step other than a file-input change, clearCover
\* or resetImage.
C14_BackgroundSetInChangeStep ==
    [][/\ \A f \in Files : handleImageUpload(f) => imageUrl' = DataURL(f)
       /\ imageUrl' # imageUrl
            => lastOp' \in {"handleImageUpload"} \cup C15_Clears]_vars

\* C14, amended: the file-input change only starts a read and leaves the
\* background as it is; the background is set when that read completes, in a
\* step of its own (reader.onload), and it changes in no step other than a
\* completed read, clearCover or resetImage.  Every other cell is written only
\* in the step of the callback that names it.
C14_BackgroundSetOnLoad ==
    [][/\ \A f \in Files :
            handleImageUpload(f)
              => imageUrl' = imageUrl /\ Len(readers') = Len(readers) + 1
       /\ lastOp' = "reader.onload"
            => /\ Len(readers') = Len(readers) - 1
               /\ \E k \in 1..Len(readers) : imageUrl' = DataURL(readers[k])
               /\ UNCHANGED <<shapes, currentPoints, isDrawing, fillColor,
                              selectedPointIndex, isClosed>>
       /\ imageUrl' # imageUrl
            => lastOp' \in {"reader.onload"} \cup C15_Clears]_vars

\* A read completed after another event (startDrawing) was handled between the
\* selection of the file and the completion.
C14_Witness ==
    /\ lastOp = "reader.onload"
    /\ imageUrl = DataURL("a.png")
    /\ readers = <<>>
    /\ isDrawing /\ currentPoints = <<>>
    /\ events = 3

\* C15 as stated: right after clearCover or resetImage the background stays
\* absent through every step that is not a new file selection, and a background
\* that is set changes only when it is cleared or a file is selected.
C15_ClearedUntilNewSelection ==
    [][/\ (lastOp \in C15_Clears /\ lastOp' # "handleImageUpload")
            => imageUrl' = ""
       /\ (imageUrl # "" /\ imageUrl' # imageUrl)
            => lastOp' \in {"handleImageUpload"} \cup C15_Clears]_vars

\* C18 as stated: a selection is always the index of a vertex of the draft.
C18_SelectionInRange ==
    selectedPointIndex # null => selectedPointIndex[1] < NumVertices

\* The operations that reset the closed flag.
C16_Resets == {"finishDrawing", "clearCurrentPoints", "resetImage", "startDrawing"}

\* The position p is at least radius away from every vertex of the draft.
FarFromAll(p) ==
    \A i \in 0..(NumVertices - 1) : SqDist(p, Vertex(i)) >= radius * radius

\* C16: a closed draft stays closed through every step that is not
\* finishDrawing, clearCurrentPoints, resetImage or startDrawing; while closed,
\* a click far from every vertex still appends its position and a drag still
\* moves its vertex.
C16_ClosedStaysEditable ==
    [][/\ (isClosed /\ lastOp' \notin C16_Resets) => isClosed'
       /\ \A p \in Pos :
            (onMouseDown(p) /\ isClosed /\ selectedPointIndex = null
               /\ FarFromAll(p))
              => currentPoints' = currentPoints \o p
       /\ \A i \in 0..(NumVertices - 1), p \in DragPos :
            (handlePointDrag(i, p) /\ isClosed)
              => /\ Len(currentPoints') = Len(currentPoints)
                 /\ <<currentPoints'[2 * i + 1], currentPoints'[2 * i + 2]>> = p]_vars

\* The first vertex of a draft closed by the second click was dragged away:
\* start, click, closing click, drag start, drag.
C16_Witness ==
    /\ lastOp = "handlePointDrag"
    /\ isClosed
    /\ currentPoints = <<PD[1], PD[2]>>
    /\ events = 5

\* C17: when the program is not drawing the draft has no points and is open,
\* and the click handler runs only while drawing.
C17_IdleHasNoDraft ==
    /\ ~isDrawing => (currentPoints = <<>> /\ ~isClosed)
    /\ lastOp = "handleClick" => isDrawing

\* Idle after a finished shape, with the selection of the interrupted drag
\* still set.
C17_Witness ==
    /\ ~isDrawing
    /\ lastOp = "finishDrawing"
    /\ shapes # <<>>
    /\ selectedPointIndex # null

\* Any two distinct vertices of the draft are at least radius apart.
PairwiseFar ==
    \A i, j \in 0..(NumVertices - 1) :
        i # j => SqDist(Vertex(i), Vertex(j)) >= radius * radius

\* C19: the vertices of a new draft are pairwise at least radius apart, and
\* no step other than a vertex drag brings two vertices closer than radius.
C19_OnlyDragBringsVerticesClose ==
    [][/\ lastOp' = "startDrawing" => PairwiseFar'
       /\ (PairwiseFar /\ lastOp' # "handlePointDrag") => PairwiseFar']_vars

\* Two clicked vertices, then one of them dragged next to the other: start,
\* click, click, drag start, drag.
C19_Witness ==
    /\ lastOp = "handlePointDrag"
    /\ NumVertices = 2
    /\ ~PairwiseFar
    /\ events = 5

\* C20: a click at distance exactly radius from the first vertex, and at least
\* radius from every other vertex, neither closes the draft nor is dropped: its
\* position is appended.
C20_BoundaryClickAppends ==
    [][\A p \in Pos :
         (/\ onMouseDown(p)
          /\ selectedPointIndex = null
          /\ NumVertices >= 1
          /\ SqDist(p, Vertex(0)) = radius * radius
          /\ FarFromAll(p))
           => /\ currentPoints' = currentPoints \o p
              /\ UNCHANGED isClosed]_vars

\* The second click landed exactly radius to the right of the first vertex.
C20_Witness ==
    /\ lastOp = "handleClick"
    /\ currentPoints = P0 \o PT
    /\ SqDist(P0, PT) = radius * radius
    /\ ~isClosed
    /\ events = 3

====
